---- MODULE Spec2Model ----
(***************************************************************************)
(* A model of NetworkTool (src/NetworkTool/networktool.py): the interactive *)
(* menu session (run), its four handlers, and the concurrent port scanner   *)
(* scan_ports with the worker pool (ThreadPoolExecutor) it drives.          *)
(*                                                                          *)
(* The main thread's position is pc; the pool's workers run concurrently    *)
(* with it (WorkerGet, WorkerFinish interleave with every main-thread step).*)
(* A KeyboardInterrupt is delivered to the main thread only, at whatever    *)
(* statement it is executing.                                               *)
(***************************************************************************)
EXTENDS Integers, Sequences, FiniteSets, TLC

\* ---------------------------------------------------------------- bounds
\* Ports of the model are 0..MaxPort.
MaxPort == 2
\* scan_ports' concurrency argument is drawn from 1..MaxConcurrency.
MaxConcurrency == 2
\* Small counter readings are 0..MaxCounter.
MaxCounter == 1

\* ------------------------------------------------------ program constants
\* _handle_traffic: threshold = 1_000_000
threshold == 1000000

Ports == 0..MaxPort
\* None, and a port number p as a future's result <<p>>.
None == <<>>

VARIABLES
    pc,             \* where the main thread is
    exit_cause,     \* why run() ended: "none", "choice5", "KeyboardInterrupt", "ValueError"
    raised_at,      \* pc at which the exception that left the operation was raised
    last_op,        \* the operation the last menu choice dispatched to
    out,            \* what the current operation has printed, in order
    has_psutil,     \* _HAS_PSUTIL, fixed at import
    host,           \* scan_ports arguments
    start_port,
    end_port,
    concurrency,
    openSet,        \* the ports of the target that accept a connection
    call,           \* the scan_ports call: "none", "active", "returned", "raised"
    next_port,      \* next port the submit loop will submit
    futures,        \* per port: the future's state and result
    work_queue,     \* executor._work_queue (FIFO of submitted ports)
    threads,        \* len(executor._threads)
    idle_semaphore, \* executor._idle_semaphore
    socks,          \* ports whose socket is open
    yielded,        \* futures as_completed has already yielded
    open_ports,     \* the list being accumulated
    interrupted,    \* the except KeyboardInterrupt clause of scan_ports was entered
    to_cancel,      \* futures the cancel loop has not visited yet
    at_interrupt,   \* open_ports (as a set) when the cancellation was handled
    result,         \* the list scan_ports returned
    sent,           \* get_network_traffic's result
    recv

scanVars == <<host, start_port, end_port, concurrency, openSet, call, next_port,
              futures, work_queue, threads, idle_semaphore, socks, yielded,
              open_ports, interrupted, to_cancel, at_interrupt, result>>
poolVars == <<futures, work_queue, threads, idle_semaphore, socks>>
trafficVars == <<sent, recv>>
vars == <<pc, exit_cause, raised_at, last_op, out, has_psutil, scanVars, trafficVars>>

\* ------------------------------------------------------------ input texts
\* Texts typed at the prompts, after .strip().
HostTexts == {"", "up.example", "unknown.example"}
IntTexts == {ToString(n) : n \in -1..MaxPort}
PortTexts == {"", "abc"} \cup IntTexts
CountTexts == {"", "abc", "-1", "2"}
DurationTexts == {"", "abc", "-1", "0"}
ContinueTexts == {"y", "n"}
ChoiceTexts == {"1", "2", "3", "4", "5", "", "9"}
Numbers == -1..(IF MaxPort > 1 THEN MaxPort ELSE 1)

\* int(text) raises ValueError unless the text is a numeral; otherwise it is
\* the number the numeral denotes. float(text) likewise (whole numbers only).
RaisesValueError(t) == ~ \E n \in Numbers : ToString(n) = t
int(t) == CHOOSE n \in Numbers : ToString(n) = t
float(t) == int(t)

\* --------------------------------------------------------- pure helpers
\* sorted(open_ports): the builtin, as an insertion sort.
RECURSIVE Insert(_, _)
Insert(x, s) ==
    IF s = <<>> THEN <<x>>
    ELSE IF x <= Head(s) THEN <<x>> \o s
    ELSE <<Head(s)>> \o Insert(x, Tail(s))

\* A scan that returns the ports in completion order.
sortedUnordered(s) == s

RECURSIVE sorted(_)
sorted(s) == IF s = <<>> THEN <<>> ELSE Insert(Head(s), sorted(Tail(s)))

Elems(s) == {s[i] : i \in 1..Len(s)}

\* range(start_port, end_port + 1)
PortRange(s, e) == {p \in Ports : s <= p /\ p <= e}

\* A range check that forgets the empty range.
InvalidRangeNegativeOnly(start, end) == start < 0

\* _handle_scan's range check.
InvalidRange(start, end) == start < 0 \/ end < start

\* socket.gethostbyname(host): an address, or an exception.
gethostbyname(h) == IF h = "unknown.example" THEN "gaierror" ELSE "ip"

\* sock.connect_ex((ip, port)) == 0, decided by the target.
connect_ex(open, port) == IF port \in open THEN 0 ELSE 111

\* _scan_single_port's return value.
scan_single_port(open, port) == IF connect_ex(open, port) = 0 THEN <<port>> ELSE None

\* A cancel that leaves the future as it is.
cancelNoEffect(state) == state

\* Future.cancel(): only a future that has not started is cancelled.
cancel(state) == IF state = "pending" THEN "cancelled" ELSE state

\* A pool that starts one thread too many.
CanSpawnOneMore(num_threads, max_workers) == num_threads <= max_workers

\* _adjust_thread_count's test num_threads < self._max_workers.
CanSpawn(num_threads, max_workers) == num_threads < max_workers

Running == {p \in Ports : futures[p].state = "running"}
Started == {p \in Ports : futures[p].state \in {"running", "finished"}}
Pending == {p \in Ports : futures[p].state = "pending"}

\* An exit from the with block that does not wait (shutdown(wait=False)).
NoWaitForWorkers == TRUE

\* What t.join() of every worker thread waits for: the queue is worked off
\* and no work item is running.
AllWorkersDone == work_queue = <<>> /\ Running = {}

NoFuture == [state |-> "none", result |-> None]

\* ------------------------------------------------------------------ Init
ScanIdle ==
    /\ openSet' = {}
    /\ next_port' = 0
    /\ futures' = [p \in Ports |-> NoFuture]
    /\ work_queue' = <<>>
    /\ threads' = 0
    /\ idle_semaphore' = 0
    /\ socks' = {}
    /\ yielded' = {}
    /\ open_ports' = <<>>
    /\ interrupted' = FALSE
    /\ to_cancel' = {}
    /\ at_interrupt' = {}
    /\ result' = <<>>

NoScan ==
    /\ ScanIdle
    /\ host' = ""
    /\ start_port' = 0
    /\ end_port' = 0
    /\ concurrency' = 1
    /\ call' = "none"

NoTraffic == sent' = 0 /\ recv' = 0

Init ==
    /\ pc = "menu"
    /\ exit_cause = "none"
    /\ raised_at = "none"
    /\ last_op = "none"
    /\ out = <<>>
    /\ has_psutil \in BOOLEAN
    /\ host = ""
    /\ start_port = 0
    /\ end_port = 0
    /\ concurrency = 1
    /\ openSet = {}
    /\ call = "none"
    /\ next_port = 0
    /\ futures = [p \in Ports |-> NoFuture]
    /\ work_queue = <<>>
    /\ threads = 0
    /\ idle_semaphore = 0
    /\ socks = {}
    /\ yielded = {}
    /\ open_ports = <<>>
    /\ interrupted = FALSE
    /\ to_cancel = {}
    /\ at_interrupt = {}
    /\ result = <<>>
    /\ sent = 0
    /\ recv = 0

\* ----------------------------------------------------------- menu: ping
\* ping_host: what subprocess.run did, and the TCP fallback on FileNotFoundError.
PingOutcomes == {"exit0", "CalledProcessError", "TimeoutExpired",
                 "FileNotFoundError_tcp_ok", "FileNotFoundError_tcp_fail"}
ping_host(outcome) == outcome \in {"exit0", "FileNotFoundError_tcp_ok"}

\* choice "1": _handle_ping
HandlePing ==
    /\ pc = "menu"
    /\ \E h \in HostTexts, c \in CountTexts, o \in PingOutcomes :
        LET text == IF c = "" THEN "1" ELSE c
            warn == IF RaisesValueError(text) THEN <<"Invalid number, using 1.">> ELSE <<>>
            up == ping_host(o)
        IN  out' = IF h = "" THEN <<"No host entered.">>
                   ELSE warn \o <<"Pinging">>
                        \o (IF up THEN <<"UP">> ELSE <<"DOWN", "ALERT">>)
    /\ last_op' = "ping"
    /\ NoScan /\ NoTraffic
    /\ UNCHANGED <<pc, exit_cause, raised_at, has_psutil>>

\* ------------------------------------------------------- menu: discover
ArpOutcomes == {"no_arp", "devices", "no_devices", "exception"}

\* choice "4": discover_devices
HandleDiscover ==
    /\ pc = "menu"
    /\ \E o \in ArpOutcomes :
        out' = CASE o = "no_arp" -> <<"ARP command not found.">>
                 [] o = "devices" -> <<"Discovered devices">>
                 [] o = "no_devices" -> <<"No devices discovered in the ARP cache.">>
                 [] OTHER -> <<"Error running arp">>
    /\ last_op' = "discover"
    /\ NoScan /\ NoTraffic
    /\ UNCHANGED <<pc, exit_cause, raised_at, has_psutil>>

\* choice "5"
HandleExit ==
    /\ pc = "menu"
    /\ pc' = "exited"
    /\ exit_cause' = "choice5"
    /\ out' = <<"Bye">>
    /\ last_op' = "exit"
    /\ NoScan /\ NoTraffic
    /\ UNCHANGED <<raised_at, has_psutil>>

\* any other choice text
HandleInvalidChoice ==
    /\ pc = "menu"
    /\ \E c \in ChoiceTexts :
        /\ c \notin {"1", "2", "3", "4", "5"}
        /\ out' = <<"Invalid choice, try again.">>
    /\ last_op' = "invalid"
    /\ NoScan /\ NoTraffic
    /\ UNCHANGED <<pc, exit_cause, raised_at, has_psutil>>

\* -------------------------------------------------------- menu: traffic
\* Readings of a cumulative byte counter, in steps that cross the alert
\* threshold.
CounterReadings == {n * (threshold + 1) : n \in 0..MaxCounter}

\* get_network_traffic(duration) with the two psutil.net_io_counters()
\* readings before and after; exc is the exception time.sleep raises for a
\* negative duration.
get_network_traffic(psutil, duration, before, after) ==
    IF ~psutil
    THEN [exc |-> "none", sent |-> 0, recv |-> 0,
          printed |-> <<"psutil not installed - cannot measure network traffic.">>]
    ELSE IF duration < 0
    THEN [exc |-> "ValueError", sent |-> 0, recv |-> 0, printed |-> <<>>]
    ELSE [exc |-> "none",
          sent |-> after.bytes_sent - before.bytes_sent,
          recv |-> after.bytes_recv - before.bytes_recv,
          printed |-> <<>>]

\* choice "3": _handle_traffic
HandleTraffic ==
    /\ pc = "menu"
    /\ last_op' = "traffic"
    /\ NoScan
    /\ UNCHANGED <<raised_at, has_psutil>>
    /\ \E cont \in (IF has_psutil THEN {"y"} ELSE ContinueTexts), d \in DurationTexts,
          bs \in CounterReadings, as \in CounterReadings,
          br \in CounterReadings, ar \in CounterReadings :
        LET advice == IF has_psutil THEN <<>> ELSE <<"psutil not installed.">>
            bad == d # "" /\ RaisesValueError(d)
            duration == IF d = "" \/ bad THEN 1 ELSE float(d)
            warn == IF bad THEN <<"Invalid duration, using 1 second.">> ELSE <<>>
            t == get_network_traffic(has_psutil, duration,
                     [bytes_sent |-> bs, bytes_recv |-> br],
                     [bytes_sent |-> as, bytes_recv |-> ar])
            alert == IF t.sent > threshold \/ t.recv > threshold
                     THEN <<"ALERT">> ELSE <<>>
        IN  IF ~has_psutil /\ cont # "y"
            THEN /\ out' = advice
                 /\ NoTraffic
                 /\ UNCHANGED <<pc, exit_cause>>
            ELSE IF t.exc # "none"
            THEN \* nothing between time.sleep and run() catches it
                 /\ out' = advice \o warn \o <<"Traceback">>
                 /\ NoTraffic
                 /\ pc' = "exited"
                 /\ exit_cause' = t.exc
            ELSE /\ out' = advice \o warn \o t.printed \o <<"Bytes sent | Bytes received">> \o alert
                 /\ sent' = t.sent
                 /\ recv' = t.recv
                 /\ UNCHANGED <<pc, exit_cause>>

\* ----------------------------------------------------------- menu: scan
\* choice "2": _handle_scan up to the call of scan_ports. The concurrency
\* parameter of scan_ports is drawn from 1..MaxConcurrency.
HandleScan ==
    /\ pc = "menu"
    /\ last_op' = "scan"
    /\ NoTraffic
    /\ ScanIdle
    /\ UNCHANGED <<exit_cause, raised_at, has_psutil>>
    /\ \E h \in HostTexts, st \in PortTexts, en \in PortTexts, c \in 1..MaxConcurrency :
        IF h = ""
        THEN /\ out' = <<"No host entered.">>
             /\ host' = "" /\ start_port' = 0 /\ end_port' = 0 /\ concurrency' = 1
             /\ call' = "none"
             /\ UNCHANGED pc
        ELSE IF RaisesValueError(st) \/ RaisesValueError(en)
        THEN /\ out' = <<"Port numbers must be integers.">>
             /\ host' = h /\ start_port' = 0 /\ end_port' = 0 /\ concurrency' = 1
             /\ call' = "none"
             /\ UNCHANGED pc
        ELSE IF InvalidRange(int(st), int(en))
        THEN /\ out' = <<"Invalid port range.">>
             /\ host' = h /\ start_port' = int(st) /\ end_port' = int(en)
             /\ concurrency' = 1
             /\ call' = "none"
             /\ UNCHANGED pc
        ELSE /\ out' = <<>>
             /\ host' = h /\ start_port' = int(st) /\ end_port' = int(en)
             /\ concurrency' = c
             /\ call' = "active"
             /\ pc' = "resolve"

\* ------------------------------------------------------------ scan_ports
\* What _handle_scan prints for the list scan_ports returned.
ReportPorts(ports) ==
    IF ports # <<>> THEN <<"Open ports on host">> ELSE <<"No open ports found">>

\* scan_ports has returned: its locals (the executor and its queue, the
\* futures of work items no thread is running, the loop state) are gone.
\* A work item a thread is still running stays, with its socket.
LocalsGone ==
    /\ futures' = [p \in Ports |-> IF futures[p].state = "running"
                                    THEN futures[p] ELSE NoFuture]
    /\ work_queue' = <<>>
    /\ threads' = Cardinality(Running)
    /\ idle_semaphore' = 0
    /\ next_port' = 0
    /\ yielded' = {}
    /\ open_ports' = <<>>
    /\ to_cancel' = {}
    /\ concurrency' = 1

\* A resolution failure swallowed without a message.
ResolveErrorSilent == <<>>

\* print(f"Could not resolve host '{host}': {e}")
ResolveError == <<"Could not resolve host">>

\* gethostbyname raised: scan_ports prints the error and returns the empty
\* list; _handle_scan prints its report of an empty list.
ResolveFail ==
    /\ pc = "resolve"
    /\ gethostbyname(host) = "gaierror"
    /\ result' = <<>>
    /\ call' = "returned"
    /\ out' = out \o ResolveError \o ReportPorts(<<>>)
    /\ pc' = "menu"
    /\ LocalsGone
    /\ UNCHANGED <<exit_cause, raised_at, last_op, has_psutil, host, start_port,
                   end_port, openSet, socks, interrupted, at_interrupt, trafficVars>>

\* gethostbyname returned: the executor is created; the target is any host.
ResolveOk ==
    /\ pc = "resolve"
    /\ gethostbyname(host) = "ip"
    /\ openSet' \in SUBSET Ports
    /\ out' = out \o <<"Scanning">>
    /\ next_port' = start_port
    /\ pc' = "submit"
    /\ UNCHANGED <<exit_cause, raised_at, last_op, has_psutil, host, start_port,
                   end_port, concurrency, call, poolVars, yielded, open_ports,
                   interrupted, to_cancel, at_interrupt, result, trafficVars>>

\* executor.submit for the next port of the range: the work item is queued
\* and _adjust_thread_count starts a thread unless an idle one is signalled
\* or max_workers threads exist. After the last port the as_completed loop
\* is entered (and the semaphore is not read again).
Submit ==
    /\ pc = "submit"
    /\ next_port <= end_port
    /\ futures' = [futures EXCEPT ![next_port] = [state |-> "pending", result |-> None]]
    /\ work_queue' = Append(work_queue, next_port)
    /\ next_port' = next_port + 1
    /\ pc' = IF next_port = end_port THEN "collect" ELSE "submit"
    /\ IF idle_semaphore > 0
       THEN /\ idle_semaphore' = IF pc' = "submit" THEN idle_semaphore - 1 ELSE 0
            /\ UNCHANGED threads
       ELSE /\ threads' = IF CanSpawn(threads, concurrency) THEN threads + 1 ELSE threads
            /\ UNCHANGED idle_semaphore
    /\ UNCHANGED <<exit_cause, raised_at, last_op, out, has_psutil, host, start_port,
                   end_port, concurrency, openSet, call, socks, yielded, open_ports,
                   interrupted, to_cancel, at_interrupt, result, trafficVars>>

\* executor._idle_semaphore.release() by a worker that is done with a work
\* item. Only submit reads the semaphore (_adjust_thread_count), so its
\* count is tracked while the submit loop runs and not after it.
release(semaphore) == IF pc = "submit" THEN semaphore + 1 ELSE 0

\* A worker thread that is not running a work item takes the head of the
\* queue. _WorkItem.run: a cancelled future is skipped; otherwise the future
\* is running and _scan_single_port opens its socket.
WorkerGet ==
    /\ work_queue # <<>>
    /\ Cardinality(Running) < threads
    /\ LET p == Head(work_queue) IN
        /\ work_queue' = Tail(work_queue)
        /\ IF futures[p].state = "pending"
           THEN /\ futures' = [futures EXCEPT ![p].state = "running"]
                /\ socks' = socks \cup {p}
                /\ UNCHANGED idle_semaphore
           ELSE /\ idle_semaphore' = release(idle_semaphore)
                /\ UNCHANGED <<futures, socks>>
    /\ UNCHANGED <<pc, exit_cause, raised_at, last_op, out, has_psutil, host,
                   start_port, end_port, concurrency, openSet, call, next_port,
                   threads, yielded, open_ports, interrupted, to_cancel,
                   at_interrupt, result, trafficVars>>

\* A connection attempt ends (connected, refused or timed out): the socket
\* is closed on leaving the with block, the future gets its result and the
\* worker signals that it is idle.
WorkerFinish ==
    /\ \E p \in Running :
        /\ futures' = [futures EXCEPT ![p] =
                          [state |-> "finished", result |-> scan_single_port(openSet, p)]]
        /\ socks' = socks \ {p}
    /\ idle_semaphore' = release(idle_semaphore)
    /\ UNCHANGED <<pc, exit_cause, raised_at, last_op, out, has_psutil, host,
                   start_port, end_port, concurrency, openSet, call, next_port,
                   work_queue, threads, yielded, open_ports, interrupted,
                   to_cancel, at_interrupt, result, trafficVars>>

\* One iteration of `for future in as_completed(futures)`: a finished future
\* not yet yielded; an open port is appended. The loop ends after the last.
Collect ==
    /\ pc = "collect"
    /\ \E p \in PortRange(start_port, end_port) \ yielded :
        /\ futures[p].state = "finished"
        /\ yielded' = yielded \cup {p}
        /\ open_ports' = IF futures[p].result # None
                         THEN open_ports \o futures[p].result
                         ELSE open_ports
        /\ pc' = IF yielded' = PortRange(start_port, end_port) THEN "join" ELSE "collect"
    /\ UNCHANGED <<exit_cause, raised_at, last_op, out, has_psutil, host, start_port,
                   end_port, concurrency, openSet, call, next_port, poolVars,
                   interrupted, to_cancel, at_interrupt, result, trafficVars>>

\* One iteration of `for f in futures: f.cancel()` (a set: any order).
CancelOne ==
    /\ pc = "cancel"
    /\ \E p \in to_cancel :
        /\ futures' = [futures EXCEPT ![p].state = cancel(futures[p].state)]
        /\ to_cancel' = to_cancel \ {p}
        /\ pc' = IF to_cancel' = {} THEN "shutdown" ELSE "cancel"
    /\ UNCHANGED <<exit_cause, raised_at, last_op, out, has_psutil, host, start_port,
                   end_port, concurrency, openSet, call, next_port, work_queue,
                   threads, idle_semaphore, socks, yielded, open_ports,
                   interrupted, at_interrupt, result, trafficVars>>

\* executor.shutdown(wait=False, cancel_futures=True): the queue is drained
\* and each drained work item's future cancelled; nothing is waited for.
ShutdownNoWait ==
    /\ pc = "shutdown"
    /\ futures' = [p \in Ports |->
                      IF \E i \in 1..Len(work_queue) : work_queue[i] = p
                      THEN [futures[p] EXCEPT !.state = cancel(futures[p].state)]
                      ELSE futures[p]]
    /\ work_queue' = <<>>
    /\ pc' = "join"
    /\ UNCHANGED <<exit_cause, raised_at, last_op, out, has_psutil, host, start_port,
                   end_port, concurrency, openSet, call, next_port, threads,
                   idle_semaphore, socks, yielded, open_ports, interrupted,
                   to_cancel, at_interrupt, result, trafficVars>>

\* Leaving `with ThreadPoolExecutor(...)`: __exit__ is shutdown(wait=True),
\* which joins every worker thread; then scan_ports returns
\* sorted(open_ports) and _handle_scan prints its report.
JoinReturn ==
    /\ pc = "join"
    /\ AllWorkersDone
    /\ result' = sorted(open_ports)
    /\ call' = "returned"
    /\ out' = out \o ReportPorts(result')
    /\ pc' = "menu"
    /\ LocalsGone
    /\ UNCHANGED <<exit_cause, raised_at, last_op, has_psutil, host, start_port,
                   end_port, openSet, socks, interrupted, at_interrupt, trafficVars>>

\* Leaving the with block while a KeyboardInterrupt propagates: __exit__
\* joins the workers (nothing was cancelled for it), the exception leaves
\* scan_ports and _handle_scan, and run() catches it and calls sys.exit(0).
UnwindRaise ==
    /\ pc = "unwind"
    /\ AllWorkersDone
    /\ call' = "raised"
    /\ out' = out \o <<"Interrupted by user. Exiting.">>
    /\ exit_cause' = "KeyboardInterrupt"
    /\ pc' = "exited"
    /\ UNCHANGED <<raised_at, last_op, has_psutil, host, start_port, end_port,
                   concurrency, openSet, next_port, poolVars, yielded, open_ports,
                   interrupted, to_cancel, at_interrupt, result, trafficVars>>

\* ------------------------------------------------------------ interrupts
\* An exception is leaving scan_ports' body: the loop variables and the
\* list being accumulated are never read again.
FrameGone ==
    /\ next_port' = 0
    /\ yielded' = {}
    /\ open_ports' = <<>>
    /\ to_cancel' = {}

\* Ctrl+C while the as_completed loop runs: the only place scan_ports
\* catches KeyboardInterrupt. The as_completed generator is abandoned.
InterruptCollect ==
    /\ pc = "collect"
    /\ interrupted' = TRUE
    /\ to_cancel' = PortRange(start_port, end_port)
    /\ at_interrupt' = Elems(open_ports)
    /\ out' = out \o <<"Scan interrupted by user.">>
    /\ pc' = "cancel"
    /\ yielded' = {}
    /\ UNCHANGED <<exit_cause, raised_at, last_op, has_psutil, host, start_port,
                   end_port, concurrency, openSet, call, next_port, poolVars,
                   open_ports, result, trafficVars>>

\* Ctrl+C inside the with block but outside the try (while submitting), or
\* inside the except clause (cancel loop, shutdown call): it propagates, and
\* the with block's __exit__ runs first.
InterruptInPool ==
    /\ pc \in {"submit", "cancel", "shutdown"}
    /\ raised_at' = pc
    /\ pc' = "unwind"
    /\ FrameGone
    /\ idle_semaphore' = 0
    /\ UNCHANGED <<exit_cause, last_op, out, has_psutil, host, start_port, end_port,
                   concurrency, openSet, call, futures, work_queue, threads, socks,
                   interrupted, at_interrupt, result, trafficVars>>

\* Ctrl+C during gethostbyname (not an Exception, so not caught there), or
\* during the joins of __exit__: it reaches run() at once.
InterruptToRun ==
    /\ pc \in {"resolve", "join", "unwind"}
    /\ raised_at' = IF pc = "unwind" THEN raised_at ELSE pc
    /\ call' = "raised"
    /\ out' = out \o <<"Interrupted by user. Exiting.">>
    /\ exit_cause' = "KeyboardInterrupt"
    /\ pc' = "exited"
    /\ FrameGone
    /\ UNCHANGED <<last_op, has_psutil, host, start_port, end_port, concurrency,
                   openSet, poolVars, interrupted, at_interrupt, result, trafficVars>>

\* Ctrl+C at the menu prompt.
InterruptMenu ==
    /\ pc = "menu"
    /\ raised_at' = "menu"
    /\ out' = out \o <<"Interrupted by user. Exiting.">>
    /\ exit_cause' = "KeyboardInterrupt"
    /\ pc' = "exited"
    /\ UNCHANGED <<last_op, has_psutil, scanVars, trafficVars>>

\* ------------------------------------------------------------------ Next
Next ==
    \/ HandlePing
    \/ HandleScan
    \/ HandleTraffic
    \/ HandleDiscover
    \/ HandleExit
    \/ HandleInvalidChoice
    \/ ResolveFail
    \/ ResolveOk
    \/ Submit
    \/ WorkerGet
    \/ WorkerFinish
    \/ Collect
    \/ CancelOne
    \/ ShutdownNoWait
    \/ JoinReturn
    \/ UnwindRaise
    \/ InterruptCollect
    \/ InterruptInPool
    \/ InterruptToRun
    \/ InterruptMenu

Spec == Init /\ [][Next]_vars

\* The scheduler keeps running the program: as long as some thread can take
\* a step (a worker taking or finishing a work item, each attempt ending
\* within its timeout, or the main thread going on), one is taken. The
\* operator need not type or interrupt.
ProgramStep ==
    \/ ResolveFail \/ ResolveOk \/ Submit \/ Collect \/ CancelOne
    \/ ShutdownNoWait \/ JoinReturn \/ UnwindRaise
    \/ WorkerGet \/ WorkerFinish

\* A session in which the operator only scans (or leaves): the other
\* handlers, and with them _HAS_PSUTIL, have no part in scan_ports.
ScanInit == Init /\ has_psutil

ScanNext ==
    \/ HandleScan
    \/ HandleExit
    \/ HandleInvalidChoice
    \/ ResolveFail
    \/ ResolveOk
    \/ Submit
    \/ WorkerGet
    \/ WorkerFinish
    \/ Collect
    \/ CancelOne
    \/ ShutdownNoWait
    \/ JoinReturn
    \/ UnwindRaise
    \/ InterruptCollect
    \/ InterruptInPool
    \/ InterruptToRun
    \/ InterruptMenu

FairSpec == ScanInit /\ [][ScanNext]_vars /\ WF_vars(ProgramStep)

\* ================================================================ claims
ScanRange == PortRange(start_port, end_port)
Ascending(s) == \A i \in 1..Len(s) : \A j \in 1..Len(s) : i < j => s[i] < s[j]
Printed(msg) == \E i \in 1..Len(out) : out[i] = msg

\* C1: a scan_ports call that is not cancelled returns exactly the open
\* ports of the target that lie in start_port..end_port, ascending and
\* without duplicates, whatever the completion order and the concurrency.
C1_ScanReturnsOpenPortsOfRange ==
    (call = "returned" /\ ~interrupted /\ gethostbyname(host) = "ip") =>
        /\ Elems(result) = openSet \cap ScanRange
        /\ Ascending(result)

\* A scan of a range of several ports returned two or more open ports
\* while the target has an open port outside the range.
C1_Witness ==
    /\ call = "returned" /\ ~interrupted
    /\ Len(result) >= 2
    /\ openSet \ ScanRange # {}

\* C2: for start > end the scan is rejected with a validation error before
\* any work is scheduled: scan_ports is not called, the host is not
\* resolved, no unit is submitted and no connection attempt is made.
C2_EmptyRangeRejected ==
    (last_op = "scan" /\ end_port < start_port) =>
        /\ Printed("Invalid port range.")
        /\ ~Printed("Scanning")
        /\ call = "none"
        /\ result = <<>>
        /\ \A p \in Ports : futures[p] = NoFuture
        /\ work_queue = <<>> /\ threads = 0 /\ socks = {}

\* The operator typed a non-negative start port above the end port.
C2_Witness ==
    /\ last_op = "scan" /\ 0 <= end_port /\ end_port < start_port
    /\ Printed("Invalid port range.")

\* C3: when the host does not resolve, no port is probed, the result is
\* empty and a resolution error is printed; a scan that ran to completion
\* never prints that error (and always prints the scanning line), so the two
\* reports differ even when no port is open.
C3_ResolutionFailureDistinct ==
    /\ (last_op = "scan" /\ gethostbyname(host) = "gaierror") =>
          /\ \A p \in Ports : futures[p] = NoFuture
          /\ socks = {} /\ threads = 0
          /\ ~Printed("Scanning")
          /\ call = "returned" => (result = <<>> /\ Printed("Could not resolve host"))
    /\ (call = "returned" /\ gethostbyname(host) = "ip") =>
          /\ ~Printed("Could not resolve host")
          /\ Printed("Scanning")

\* scan_ports returned for a host that does not resolve.
C3_Witness ==
    /\ call = "returned" /\ gethostbyname(host) = "gaierror"
    /\ Printed("Could not resolve host") /\ Printed("No open ports found")

\* C4: at whatever point of the scan the operator cancels it, the operation
\* does not fail as a whole (scan_ports returns, it does not raise), and the
\* list it returns holds only ports already confirmed open, a subset of the
\* uncancelled result.
C4_CancelReturnsPartialResult ==
    /\ call = "raised" => raised_at \notin {"submit", "cancel", "shutdown", "join"}
    /\ call = "returned" =>
          /\ Elems(result) \subseteq openSet \cap ScanRange
          /\ interrupted => Elems(result) = at_interrupt

\* C5: an interrupt that arrives while a scan is submitting, collecting or
\* shutting its pool down cancels only the scan; the session ends on an
\* interrupt only when it arrives outside an operation.
C5_InterruptInScanKeepsSession ==
    (pc = "exited" /\ exit_cause = "KeyboardInterrupt") =>
        raised_at \notin {"submit", "cancel", "shutdown", "join"}

\* C6: the traffic sampler returns two non-negative byte counts, also when a
\* counter decreases between the two readings.
C6_TrafficDeltasNonNegative ==
    last_op = "traffic" => (sent >= 0 /\ recv >= 0)

\* C7: no operator input is fatal: the session ends only on choice 5 or on
\* an operator interrupt.
C7_NoInputIsFatal ==
    pc = "exited" => exit_cause \in {"choice5", "KeyboardInterrupt"}

\* C8: at every moment the number of connection attempts in flight (and of
\* open sockets) is at most the concurrency argument.
C8_InFlightBounded ==
    /\ Cardinality(Running) <= concurrency
    /\ Cardinality(socks) <= concurrency
    /\ threads <= concurrency

\* The pool is saturated: concurrency >= 2 attempts in flight and more
\* units waiting in the queue.
C8_Witness ==
    /\ concurrency >= 2
    /\ Cardinality(Running) = concurrency
    /\ Pending # {}

\* C9 as stated: from the moment the cancellation is being handled, no unit
\* that had not started is attempted, and no unit in flight is interrupted.
C9_NoStartAfterCancel ==
    [][/\ interrupted => Started' \subseteq Started
       /\ \A p \in Running : futures'[p].state \in {"running", "finished"}]_vars

\* The cancel loop has visited every future.
CancelLoopDone ==
    /\ interrupted
    /\ pc \in {"shutdown", "join", "menu", "exited", "unwind"}
    /\ raised_at # "cancel"

\* C9 amended: a unit whose future has been cancelled is never attempted, and
\* once the cancel loop has visited every future no unit starts any more; a
\* unit a free worker dequeues before the loop reaches it is still attempted.
\* No unit in flight is interrupted: it leaves that state only by finishing.
C9_NoStartOnceCancelled ==
    [][/\ CancelLoopDone => Started' \subseteq Started
       /\ \A p \in Ports : futures[p].state = "cancelled" =>
              futures'[p].state \in {"cancelled", "none"}
       /\ \A p \in Running : futures'[p].state \in {"running", "finished"}]_vars

\* The handler is done; some units were dropped and one is still in flight.
C9_Witness ==
    /\ interrupted /\ pc = "join"
    /\ \E p \in Ports : futures[p].state = "cancelled"
    /\ Running # {}

\* C10: whenever scan_ports has returned, cancelled or not, no attempt of
\* the scan is in flight and no socket is open; and, each attempt ending
\* within its timeout, an active call always comes to its end.
C10_ReturnsWithNothingInFlight ==
    /\ [](call = "returned" => (Running = {} /\ socks = {} /\ work_queue = <<>>))
    /\ (call = "active") ~> (call # "active")

\* A cancelled scan returned a partial result.
C10_Witness ==
    /\ call = "returned" /\ interrupted
    /\ Elems(result) # openSet \cap ScanRange

====
